---- MODULE Spec2Model ----
(***************************************************************************)
(* SatisScanner: the log analysis engine of src/satis_scanner.py.          *)
(*                                                                         *)
(* A run scans the log files of a directory in sorted order, one line at a *)
(* time (analyze_log_file), merges every file's events into corpus-wide    *)
(* lists, then detects logging gaps, reconstructs sessions, aggregates     *)
(* player statistics (analyze_all_logs) and writes the snapshot            *)
(* (save_metrics).                                                         *)
(*                                                                         *)
(* Instants are integers counting milliseconds (the resolution of the log  *)
(* timestamps ":fff").  A duration is a number of milliseconds too: the    *)
(* source's duration_minutes is that quantity divided by 60000 and its     *)
(* duration_hours that quantity divided by 3600000, so Minutes(15) below   *)
(* is the source's 15 and Hours(1) the source's 1.                         *)
(***************************************************************************)
EXTENDS Integers, Sequences, FiniteSets, TLC

VARIABLES
    logdir,           \* the log directory: the FactoryGame*.log files, sorted
    pc,               \* "scan", "save" or "done": position of main()
    fileNo,           \* index in logdir of the file being analysed
    lineNo,           \* number of lines of that file already processed
    file_metrics,     \* analyze_log_file's accumulator for that file
    all_joins,        \* analyze_all_logs' corpus-wide lists
    all_errors,
    all_connections,
    server_periods,
    metrics,          \* self.metrics
    output,           \* content of satis_metrics.json
    previous,         \* content of satis_metrics.json left by the run before
    reported,         \* files whose failure was printed to the operator
    clock,            \* wall clock read by datetime.now()
    run               \* number of the current run of the engine

vars == <<logdir, pc, fileNo, lineNo, file_metrics, all_joins, all_errors,
          all_connections, server_periods, metrics, output, previous,
          reported, clock, run>>

-----------------------------------------------------------------------------
(* Bounds of the model *)

MaxFiles == 2          \* files in the directory (Spec, SpecRerun)
MaxLines == 2          \* lines per file (Spec, SpecRerun)
MaxClassifyLines == 2  \* lines of the single file of SpecClassify
MaxJoins == 3          \* join lines of the single file of SpecSessions
MaxGapFiles == 3       \* files of SpecGaps
MaxSlack == 1          \* how far list lengths stray from the tails (SpecTail)
MaxRuns == 2           \* runs of the engine on the same directory (SpecRerun)

-----------------------------------------------------------------------------
(* Time *)

Seconds(n) == n * 1000
Minutes(n) == n * 60000
Hours(n) == n * 3600000

Max(a, b) == IF a >= b THEN a ELSE b
Min(a, b) == IF a <= b THEN a ELSE b

\* parse_timestamp's "no instant"
None == -1

\* datetime.isoformat(): "YYYY-MM-DDTHH:MM:SS" followed by ".ffffff" only
\* when the sub-second part is not zero.  The text is modelled by the pair
\* <<whole seconds, sub-second part>>; Python compares the strings
\* character by character, which on these fixed-width texts is the
\* lexicographic order of the pair (a text without fraction is a proper
\* prefix of every text of the same second with one).
isoformat(t) == <<t \div 1000, t % 1000>>

\* datetime.fromisoformat()
fromisoformat(s) == s[1] * 1000 + s[2]

\* str.__lt__ on two isoformat texts
IsoLess(a, b) == a[1] < b[1] \/ (a[1] = b[1] /\ a[2] < b[2])

\* datetime.date(): the calendar day of an instant
DateOf(t) == t \div Hours(24)

-----------------------------------------------------------------------------
(* Lines of a log file.                                                    *)
(*                                                                         *)
(* A line is abstracted to what the scanner looks at:                      *)
(*   tok   the first bracketed token: NoToken when the line has none, or   *)
(*         [fmt, sec, frac] where fmt tells how the text is shaped:        *)
(*           "full"   YYYY.MM.DD-HH.MM.SS:fff                              *)
(*           "short"  YYYY.MM.DD-HH.MM.SS (19 characters)                  *)
(*           "prefix" 19 well-formed characters followed by other text     *)
(*           "junk"   anything else, e.g. [LogNet]                         *)
(*   marks the marker substrings the line contains                         *)
(*   user  the text after "Join succeeded: " (NoMatch when there is none)  *)
(*   ip    the bracketed text after "from: " (NoMatch when there is none)  *)
(***************************************************************************)

JOIN == "LogNet: Join succeeded:"
ACCEPT == "NotifyAcceptingConnection accepted from:"
ERROR == "Error:"
WARNING == "Warning:"
CLOSE == "LogNet: UNetConnection::Close"
Markers == {JOIN, ACCEPT, ERROR, WARNING, CLOSE}

NoToken == [fmt |-> "none", sec |-> 0, frac |-> 0]
NoMatch == "-"

Tok(fmt, t) == [fmt |-> fmt, sec |-> t \div 1000, frac |-> t % 1000]
Line(tok, marks, user, ip) ==
    [tok |-> tok, marks |-> marks, user |-> user, ip |-> ip]

\* re.search(r'\[([^\]]+)\]', line)
timestamp_match(line) == line.tok.fmt # "none"

\* parse_timestamp reading the leading digits of whatever the token holds
parse_timestamp_lenient(tok) ==
    IF tok.fmt = "full" THEN Seconds(tok.sec) + tok.frac ELSE Seconds(tok.sec)

\* parse_timestamp: the full pattern first, then the 19-character prefix
\* without the fraction, None when both fail
parse_timestamp(tok) ==
    IF tok.fmt = "full" THEN Seconds(tok.sec) + tok.frac
    ELSE IF tok.fmt \in {"short", "prefix"} THEN Seconds(tok.sec)
    ELSE None

-----------------------------------------------------------------------------
(* analyze_log_file *)

\* file_metrics as analyze_log_file creates it ("leaves" is never written
\* nor read and is left out)
NewFileMetrics ==
    [joins |-> <<>>, errors |-> <<>>, connections |-> <<>>,
     start_time |-> None, end_time |-> None]

\* os.path.basename(log_path): the files of one directory are named by
\* their position in the sorted listing
basename(f) == f

\* "Track file time range"
TrackRange(fm, timestamp) ==
    [fm EXCEPT
        !.start_time = IF fm.start_time = None \/ timestamp < fm.start_time
                       THEN timestamp ELSE @,
        !.end_time = IF fm.end_time = None \/ timestamp > fm.end_time
                     THEN timestamp ELSE @]

\* Classify with the severity markers tested by "if" instead of "elif"
ClassifyFallThrough(fm, line, timestamp, f) ==
    LET joined ==
            IF JOIN \in line.marks /\ line.user # NoMatch
            THEN [fm EXCEPT !.joins = Append(@,
                     [timestamp |-> isoformat(timestamp),
                      username |-> line.user,
                      file |-> basename(f)])]
            ELSE fm
        accepted ==
            IF JOIN \notin line.marks /\ ACCEPT \in line.marks /\ line.ip # NoMatch
            THEN [joined EXCEPT !.connections = Append(@,
                     [timestamp |-> isoformat(timestamp),
                      ip |-> line.ip,
                      type |-> "connection_attempt"])]
            ELSE joined
    IN IF \E level \in {ERROR, WARNING, CLOSE} : level \in line.marks
       THEN [accepted EXCEPT !.errors = Append(@,
                [timestamp |-> isoformat(timestamp),
                 level |-> IF ERROR \in line.marks THEN "Error" ELSE "Warning",
                 file |-> basename(f)])]
       ELSE accepted

\* the if / elif / elif chain on the marker substrings
Classify(fm, line, timestamp, f) ==
    IF JOIN \in line.marks THEN
        IF line.user # NoMatch
        THEN [fm EXCEPT !.joins = Append(@,
                 [timestamp |-> isoformat(timestamp),
                  username |-> line.user,
                  file |-> basename(f)])]
        ELSE fm
    ELSE IF ACCEPT \in line.marks THEN
        IF line.ip # NoMatch
        THEN [fm EXCEPT !.connections = Append(@,
                 [timestamp |-> isoformat(timestamp),
                  ip |-> line.ip,
                  type |-> "connection_attempt"])]
        ELSE fm
    ELSE IF \E level \in {ERROR, WARNING, CLOSE} : level \in line.marks THEN
        [fm EXCEPT !.errors = Append(@,
            [timestamp |-> isoformat(timestamp),
             level |-> IF ERROR \in line.marks THEN "Error" ELSE "Warning",
             file |-> basename(f)])]
    ELSE fm

\* the body of the loop over the lines of file f
analyze_line(fm, line, f) ==
    IF ~timestamp_match(line) THEN fm
    ELSE LET timestamp == parse_timestamp(line.tok) IN
         IF timestamp = None THEN fm
         ELSE Classify(TrackRange(fm, timestamp), line, timestamp, f)

-----------------------------------------------------------------------------
(* The scan loop of analyze_all_logs *)

CurFile == logdir[fileNo]
Scanning == pc = "scan" /\ fileNo <= Len(logdir)

\* lines 158-164: the file's span, when it has one
WithPeriod(periods, fm, f) ==
    IF fm.start_time # None /\ fm.end_time # None
    THEN Append(periods,
            [file |-> basename(f),
             start |-> isoformat(fm.start_time),
             end |-> isoformat(fm.end_time),
             duration_hours |-> fm.end_time - fm.start_time])
    ELSE periods

\* analyze_log_file returns fm; lines 158-168 merge it and the loop moves on
Merge(fm) ==
    /\ server_periods' = WithPeriod(server_periods, fm, fileNo)
    /\ all_joins' = all_joins \o fm.joins
    /\ all_errors' = all_errors \o fm.errors
    /\ all_connections' = all_connections \o fm.connections
    /\ fileNo' = fileNo + 1
    /\ lineNo' = 0
    /\ file_metrics' = NewFileMetrics

\* one iteration of "for line_num, line in enumerate(file, 1)"
ProcessLine ==
    /\ Scanning
    /\ lineNo < Len(CurFile.lines)
    /\ CurFile.fail # lineNo + 1
    /\ file_metrics' = analyze_line(file_metrics, CurFile.lines[lineNo + 1], fileNo)
    /\ lineNo' = lineNo + 1
    /\ UNCHANGED <<logdir, pc, fileNo, all_joins, all_errors, all_connections,
                   server_periods, metrics, output, previous, reported,
                   clock, run>>

\* open() or the read of the next line raises: "except Exception" prints
\* the failure, and analyze_log_file returns file_metrics as it stands
ReadFails ==
    /\ Scanning
    /\ CurFile.fail = lineNo + 1
    /\ reported' = Append(reported, fileNo)
    /\ Merge(file_metrics)
    /\ UNCHANGED <<logdir, pc, metrics, output, previous, clock, run>>

\* the file is exhausted: analyze_log_file returns
FinishFile ==
    /\ Scanning
    /\ lineNo = Len(CurFile.lines)
    /\ CurFile.fail # lineNo + 1
    /\ Merge(file_metrics)
    /\ UNCHANGED <<logdir, pc, metrics, output, previous, reported, clock, run>>

-----------------------------------------------------------------------------
(* Python lists and dicts *)

\* list.sort(key=...), which is stable: the element of rank r is the one
\* with r-1 elements before it, those of a smaller key and those of the
\* same key that came earlier.  keys[i] is the isoformat key of s[i].
Rank(keys, i) ==
    Cardinality({j \in DOMAIN keys :
                    IsoLess(keys[j], keys[i]) \/ (keys[j] = keys[i] /\ j < i)}) + 1
SortedByKey(s, keys) ==
    [r \in DOMAIN s |-> s[CHOOSE i \in DOMAIN s : Rank(keys, i) = r]]

\* lst[:n] in place of lst[-n:]
FirstN(s, n) == SubSeq(s, 1, Min(n, Len(s)))

\* lst[-n:]
LastN(s, n) == SubSeq(s, Max(1, Len(s) - n + 1), Len(s))

\* keys of a dict filled by d[k] = ... for k in ks: insertion order, each
\* key at its first occurrence
RECURSIVE OrderedKeys(_)
OrderedKeys(ks) ==
    IF ks = <<>> THEN <<>>
    ELSE LET r == OrderedKeys(SubSeq(ks, 1, Len(ks) - 1))
             k == ks[Len(ks)]
         IN IF \E i \in DOMAIN r : r[i] = k THEN r ELSE Append(r, k)

RECURSIVE Flatten(_)
Flatten(ss) == IF ss = <<>> THEN <<>> ELSE Head(ss) \o Flatten(Tail(ss))

RECURSIVE Sum(_)
Sum(s) == IF s = <<>> THEN 0 ELSE Head(s) + Sum(Tail(s))

MinOf(S) == CHOOSE x \in S : \A y \in S : x <= y
MaxOf(S) == CHOOSE x \in S : \A y \in S : x >= y
Range(s) == {s[i] : i \in DOMAIN s}

\* a dict is its keys in insertion order and the value at each key; two
\* dicts of the same content are written differently by json.dump when
\* their insertion orders differ
Dict(keys, at) == [keys |-> keys, at |-> at]
Items(d) == [i \in DOMAIN d.keys |-> <<d.keys[i], d.at[d.keys[i]]>>]

\* the orders in which "for x in S" may enumerate a set of strings: str
\* hashes are salted per process, so the order is any order
Orderings(S) ==
    {o \in [1..Cardinality(S) -> S] : \A i, j \in DOMAIN o : i # j => o[i] # o[j]}

-----------------------------------------------------------------------------
(* calculate_sessions *)

\* EstimateDuration with the 6 hour limit excluded
EstimateDurationExclusive(time_gap) ==
    IF 0 < time_gap /\ time_gap < Minutes(360)
    THEN Max(Minutes(15), time_gap - Minutes(5))
    ELSE Minutes(60)

\* EstimateDuration without the 15 minute minimum
EstimateDurationNoFloor(time_gap) ==
    IF 0 < time_gap /\ time_gap <= Minutes(360)
    THEN time_gap - Minutes(5)
    ELSE Minutes(60)

\* EstimateDuration with the 5 minutes added instead of deducted
EstimateDurationPlusGrace(time_gap) ==
    IF 0 < time_gap /\ time_gap <= Minutes(360)
    THEN Max(Minutes(15), time_gap + Minutes(5))
    ELSE Minutes(60)

\* lines 122-128: the duration when a next join exists, from the gap to it
EstimateDuration(time_gap) ==
    IF 0 < time_gap /\ time_gap <= Minutes(360)
    THEN Max(Minutes(15), time_gap - Minutes(5))
    ELSE Minutes(60)

\* lines 113-140: the session of the join at position i of a player's joins
SessionOf(joins, i) ==
    LET session_start == fromisoformat(joins[i].timestamp)
        duration_minutes ==
            IF i + 1 <= Len(joins)
            THEN EstimateDuration(fromisoformat(joins[i + 1].timestamp) - session_start)
            ELSE Minutes(45)
        session_end == session_start + duration_minutes
    IN [username |-> joins[i].username,
        start |-> isoformat(session_start),
        end |-> isoformat(session_end),
        duration_minutes |-> duration_minutes,
        date |-> DateOf(session_start)]

\* lines 110-140 for one player
PlayerSessions(joins_of_all, username) ==
    LET mine == SelectSeq(joins_of_all, LAMBDA j : j.username = username)
        joins == SortedByKey(mine, [i \in DOMAIN mine |-> mine[i].timestamp])
    IN [i \in DOMAIN joins |-> SessionOf(joins, i)]

calculate_sessions(joins_of_all) ==
    LET players == OrderedKeys([i \in DOMAIN joins_of_all |-> joins_of_all[i].username])
    IN Flatten([k \in DOMAIN players |-> PlayerSessions(joins_of_all, players[k])])

-----------------------------------------------------------------------------
(* analyze_all_logs after the scan loop *)

\* IsLoggingGap with a gap of exactly one hour counted
IsLoggingGapInclusive(gap_duration) == gap_duration >= Hours(1)

\* line 177
IsLoggingGap(gap_duration) == gap_duration > Hours(1)

\* lines 172-185, on the periods sorted by start (duration_days is
\* duration_hours in another unit and is left out)
DetectGaps(periods) ==
    LET between(i) ==
            LET current_end == fromisoformat(periods[i].end)
                next_start == fromisoformat(periods[i + 1].start)
            IN [start |-> isoformat(current_end),
                end |-> isoformat(next_start),
                duration_hours |-> next_start - current_end,
                after_file |-> periods[i].file,
                before_file |-> periods[i + 1].file]
        pairs == [i \in 1..(Len(periods) - 1) |-> between(i)]
    IN SelectSeq(pairs, LAMBDA g : IsLoggingGap(g.duration_hours))

\* lines 194-206 (avg_session_hours is rounded down to the millisecond)
PlayerStats(joins_of_all, sessions, username) ==
    LET user_joins == SelectSeq(joins_of_all, LAMBDA j : j.username = username)
        user_sessions == SelectSeq(sessions, LAMBDA x : x.username = username)
        session_durations ==
            [i \in DOMAIN user_sessions |-> user_sessions[i].duration_minutes]
        seen == {fromisoformat(user_joins[i].timestamp) : i \in DOMAIN user_joins}
        some == Len(session_durations) > 0
    IN [total_joins |-> Len(user_joins),
        total_playtime_hours |-> Sum(session_durations),
        first_seen |-> isoformat(MinOf(seen)),
        last_seen |-> isoformat(MaxOf(seen)),
        avg_session_hours |->
            IF some THEN Sum(session_durations) \div Len(session_durations) ELSE 0,
        min_session_hours |-> IF some THEN MinOf(Range(session_durations)) ELSE 0,
        max_session_hours |-> IF some THEN MaxOf(Range(session_durations)) ELSE 0]

UniquePlayers == {all_joins[i].username : i \in DOMAIN all_joins}

\* JSON null
Null == <<>>

\* lines 170-248; order is the order in which the set unique_players is
\* enumerated
Compile(order) ==
    LET periods ==
            SortedByKey(server_periods,
                        [i \in DOMAIN server_periods |-> server_periods[i].start])
        logging_gaps == DetectGaps(periods)
        sessions == calculate_sessions(all_joins)
        player_stats ==
            Dict(order, [u \in UniquePlayers |-> PlayerStats(all_joins, sessions, u)])
        instants == {fromisoformat(all_joins[i].timestamp) : i \in DOMAIN all_joins}
        dates == [i \in DOMAIN all_joins |-> DateOf(fromisoformat(all_joins[i].timestamp))]
        daily_activity ==
            Dict(OrderedKeys(dates),
                 [d \in Range(dates) |-> Cardinality({i \in DOMAIN dates : dates[i] = d})])
    IN /\ server_periods' = periods
       /\ metrics' =
            [summary |->
                [total_log_files |-> Len(logdir),
                 total_unique_players |-> Cardinality(UniquePlayers),
                 total_join_events |-> Len(all_joins),
                 total_sessions |-> Len(sessions),
                 total_errors |-> Len(all_errors),
                 total_connections |-> Len(all_connections),
                 total_logging_gaps |-> Len(logging_gaps),
                 longest_gap_hours |->
                    MaxOf({0} \cup {logging_gaps[i].duration_hours :
                                        i \in DOMAIN logging_gaps}),
                 analysis_date |-> clock,
                 server_span_days |->
                    IF Len(all_joins) > 0
                    THEN (MaxOf(instants) - MinOf(instants)) \div Hours(24) ELSE 0,
                 first_activity |->
                    IF Len(all_joins) > 0 THEN isoformat(MinOf(instants)) ELSE Null,
                 last_activity |->
                    IF Len(all_joins) > 0 THEN isoformat(MaxOf(instants)) ELSE Null],
             players |-> player_stats,
             sessions |-> sessions,
             server_periods |-> periods,
             logging_gaps |-> logging_gaps,
             daily_activity |-> daily_activity,
             errors |-> LastN(all_errors, 100),
             recent_connections |-> LastN(all_connections, 50)]

\* the rest of analyze_all_logs once every file is scanned
Aggregate ==
    /\ pc = "scan"
    /\ fileNo = Len(logdir) + 1
    /\ \E order \in Orderings(UniquePlayers) : Compile(order)
    /\ pc' = "save"
    /\ UNCHANGED <<logdir, fileNo, lineNo, file_metrics, all_joins, all_errors,
                   all_connections, output, previous, reported, clock, run>>

-----------------------------------------------------------------------------
(* save_metrics and main *)

\* json.dump(self.metrics, f, indent=2, default=str): every dict is written
\* as its items in insertion order (the dicts built from literals have a
\* fixed order and stay records here)
json_dump(m) ==
    [m EXCEPT !.players = Items(m.players),
              !.daily_activity = Items(m.daily_activity)]

SaveMetrics ==
    /\ pc = "save"
    /\ output' = json_dump(metrics)
    /\ pc' = "done"
    /\ UNCHANGED <<logdir, fileNo, lineNo, file_metrics, all_joins, all_errors,
                   all_connections, server_periods, metrics, previous, reported,
                   clock, run>>

\* self.metrics as __init__ sets it
NewMetrics ==
    [summary |-> <<>>, players |-> <<>>, sessions |-> <<>>,
     server_events |-> <<>>, timeline |-> <<>>, performance |-> <<>>,
     errors |-> <<>>]

NoFile == <<>>

\* the state in which the first run of main() starts on directory dir
Start(dir) ==
    /\ logdir = dir
    /\ pc = "scan"
    /\ fileNo = 1
    /\ lineNo = 0
    /\ file_metrics = NewFileMetrics
    /\ all_joins = <<>>
    /\ all_errors = <<>>
    /\ all_connections = <<>>
    /\ server_periods = <<>>
    /\ metrics = NewMetrics
    /\ output = NoFile
    /\ previous = NoFile
    /\ reported = <<>>
    /\ clock = 0
    /\ run = 1

\* the operator runs the engine again on the unchanged directory, later
Rerun ==
    /\ pc = "done"
    /\ run < MaxRuns
    /\ previous' = output
    /\ run' = run + 1
    /\ clock' = clock + 1
    /\ pc' = "scan"
    /\ fileNo' = 1
    /\ lineNo' = 0
    /\ file_metrics' = NewFileMetrics
    /\ all_joins' = <<>>
    /\ all_errors' = <<>>
    /\ all_connections' = <<>>
    /\ server_periods' = <<>>
    /\ metrics' = NewMetrics
    /\ reported' = <<>>
    /\ UNCHANGED <<logdir, output>>

-----------------------------------------------------------------------------
(* Log directories *)

SeqsUpTo(S, n) == UNION {[1..k -> S] : k \in 0..n}

\* a file: its lines, and the read at which an I/O failure strikes (0:
\* none; k: open() or the read of the k-th line raises, the lines before
\* it having been delivered)
File(lines, fail) == [lines |-> lines, fail |-> fail]
Readable(lines) == File(lines, 0)

JoinLine(user, t) == Line(Tok("full", t), {JOIN}, user, NoMatch)
ErrorLine(t) == Line(Tok("full", t), {ERROR}, NoMatch, NoMatch)
AcceptLine(t) == Line(Tok("full", t), {ACCEPT}, NoMatch, "10.0.0.1")
PlainLine(t) == Line(Tok("full", t), {}, NoMatch, NoMatch)

\* Spec: a few files of a few lines, any of which may fail to be read
MainLines ==
    {JoinLine("alice", Minutes(1)), JoinLine("bob", Minutes(3)),
     ErrorLine(Minutes(2)), AcceptLine(Minutes(4))}
FilesOf(lineset, n) ==
    UNION {{File(ls, k) : k \in 0..(Len(ls) + 1)} : ls \in SeqsUpTo(lineset, n)}
MainDirs == SeqsUpTo(FilesOf(MainLines, MaxLines), MaxFiles)

\* SpecClassify: one readable file whose lines combine the shapes of the
\* first bracketed token with the markers
AllMarkers == Line(Tok("junk", 0), Markers, "alice", "10.0.0.1")
MarkSets ==
    {{}, {JOIN}, {ACCEPT}, {ERROR}, {WARNING}, {CLOSE}, {JOIN, ACCEPT},
     {JOIN, ERROR}, {ACCEPT, ERROR}, {ERROR, WARNING}, Markers}
Marked(tok, marks) ==
    Line(tok, marks, IF JOIN \in marks THEN "alice" ELSE NoMatch,
         IF ACCEPT \in marks THEN "10.0.0.1" ELSE NoMatch)
Stamps == {Tok("full", Minutes(2) + 500), Tok("short", Minutes(1))}
ClassifyLines ==
    {Marked(tok, marks) : tok \in Stamps, marks \in MarkSets}
    \cup {Line(tok, {JOIN}, NoMatch, NoMatch) : tok \in Stamps}
    \cup {Line(tok, {ACCEPT}, NoMatch, NoMatch) : tok \in Stamps}
    \cup {Marked(Tok("prefix", Minutes(3)), marks) : marks \in {{}, {JOIN}}}
    \cup {Marked(Tok("junk", 0), marks) : marks \in {{JOIN}, {ACCEPT}, {ERROR}, Markers}}
    \cup {Line(NoToken, marks, IF JOIN \in marks THEN "alice" ELSE NoMatch, NoMatch) :
            marks \in {{JOIN}, {ERROR}, Markers}}
ClassifyDirs == {<<Readable(ls)>> : ls \in SeqsUpTo(ClassifyLines, MaxClassifyLines)}

\* SpecSessions: one readable file of joins of two players, in any order,
\* at instants whose gaps lie on both sides of every threshold
JoinTimes ==
    {0, Minutes(10), Minutes(15) - 1, Minutes(15), Minutes(30), Minutes(360),
     Minutes(360) + 1}
JoinLines == {JoinLine(u, t) : u \in {"alice", "bob"}, t \in JoinTimes}
JoinDirs == {<<Readable(ls)>> : ls \in SeqsUpTo(JoinLines, MaxJoins)}

\* SpecGaps: readable files of one or two plain lines, each spanning an
\* instant or an interval
Span(s, e) == Readable(IF s = e THEN <<PlainLine(s)>> ELSE <<PlainLine(s), PlainLine(e)>>)
SpanFiles ==
    {Span(t, t) : t \in {0, Hours(1), Minutes(90), Hours(2), Hours(2) + 1,
                         Hours(3), Hours(4)}}
    \cup {Span(0, Hours(1)), Span(Minutes(90), Hours(2)), Span(Hours(3), Hours(4)),
          Span(0, Hours(4)), Span(Hours(1), Hours(2) + 1)}
GapDirs == SeqsUpTo(SpanFiles, MaxGapFiles)

\* SpecTail: two readable files holding nE error or warning lines and nC
\* connection lines, their numbers around the lengths of the two tails
LogLine(i) ==
    Line(Tok("full", Seconds(i)), IF i % 2 = 1 THEN {ERROR} ELSE {WARNING},
         NoMatch, NoMatch)
TailDir(nE, nC) ==
    <<Readable([i \in 1..(nE \div 2) |-> LogLine(i)]
               \o [i \in 1..nC |-> AcceptLine(Seconds(i) + 500)]),
      Readable([i \in 1..(nE - nE \div 2) |-> LogLine(nE \div 2 + i)])>>
Around(n) == (0..MaxSlack) \cup ((n - MaxSlack)..(n + MaxSlack))
TailDirs == {TailDir(nE, nC) : nE \in Around(100), nC \in Around(50)}

-----------------------------------------------------------------------------
(* Specifications *)

Init == \E dir \in MainDirs : Start(dir)

NextScan == ProcessLine \/ FinishFile \/ Aggregate \/ SaveMetrics

Next == NextScan \/ ReadFails \/ Rerun

Spec == Init /\ [][Next]_vars

InitClassify == \E dir \in ClassifyDirs : Start(dir)
SpecClassify == InitClassify /\ [][NextScan]_vars

InitSessions == \E dir \in JoinDirs : Start(dir)
SpecSessions == InitSessions /\ [][NextScan]_vars

InitGaps == \E dir \in GapDirs : Start(dir)
SpecGaps == InitGaps /\ [][NextScan]_vars

InitTail == \E dir \in TailDirs : Start(dir)
SpecTail == InitTail /\ [][NextScan]_vars

-----------------------------------------------------------------------------
(* Session reconstruction: C1, C2, C10 *)

Compiled == pc \in {"save", "done"}

Players == {"alice", "bob"}
SessionsOfPlayer(u) == SelectSeq(metrics.sessions, LAMBDA x : x.username = u)
JoinsOfPlayer(u) == SelectSeq(all_joins, LAMBDA j : j.username = u)
Count(s, v) == Cardinality({i \in DOMAIN s : s[i] = v})
Starts(ss) == [i \in DOMAIN ss |-> fromisoformat(ss[i].start)]

\* the duration the rule gives the session at position i of a player's
\* sessions, whose starts are st
RuleDuration(st, i) ==
    IF i = Len(st) THEN Minutes(45)
    ELSE LET gap == st[i + 1] - st[i] IN
         IF gap > 0 /\ gap <= Minutes(360)
         THEN (IF gap - Minutes(5) > Minutes(15) THEN gap - Minutes(5) ELSE Minutes(15))
         ELSE Minutes(60)

\* C1: one Session per JoinEvent; every player's sessions start at that
\* player's join instants in ascending order; the session at position i
\* lasts 45 minutes when it is the last, max(15, gap - 5) minutes when the
\* gap to the next is in (0, 360], 60 minutes otherwise; its end is its
\* start plus its duration.
SessionPerJoinWithRuleDuration ==
    Compiled =>
        /\ Len(metrics.sessions) = Len(all_joins)
        /\ \A x \in Range(metrics.sessions) : x.username \in Players
        /\ \A u \in Players :
            LET ss == SessionsOfPlayer(u)
                st == Starts(ss)
                js == JoinsOfPlayer(u)
                jt == [i \in DOMAIN js |-> fromisoformat(js[i].timestamp)]
            IN /\ Len(ss) = Len(js)
               /\ \A t \in Range(jt) : Count(st, t) = Count(jt, t)
               /\ \A i \in DOMAIN st : i < Len(st) => st[i] <= st[i + 1]
               /\ \A i \in DOMAIN ss :
                    /\ ss[i].duration_minutes = RuleDuration(st, i)
                    /\ fromisoformat(ss[i].end) = st[i] + ss[i].duration_minutes

\* alice joined at 0:30 and then at 0:00 in the file, bob once: alice's
\* first session lasts 25 minutes, her last and bob's only one 45
SessionRuleReached ==
    /\ pc = "done"
    /\ Len(all_joins) = 3
    /\ Starts(SessionsOfPlayer("alice")) = <<0, Minutes(30)>>
    /\ fromisoformat(all_joins[1].timestamp) = Minutes(30)
    /\ SessionsOfPlayer("alice")[1].duration_minutes = Minutes(25)
    /\ SessionsOfPlayer("alice")[2].duration_minutes = Minutes(45)
    /\ Len(SessionsOfPlayer("bob")) = 1
    /\ SessionsOfPlayer("bob")[1].duration_minutes = Minutes(45)

\* C2: every Session ends strictly after it starts and lasts at least 15
\* minutes, whatever the joins.
SessionEndsAfterStart ==
    Compiled =>
        \A x \in Range(metrics.sessions) :
            /\ fromisoformat(x.end) > fromisoformat(x.start)
            /\ x.duration_minutes >= Minutes(15)

\* one player joined twice at the same instant and once a millisecond
\* before it
DuplicateJoinsReached ==
    /\ pc = "done"
    /\ Starts(SessionsOfPlayer("bob")) = <<Minutes(15) - 1, Minutes(15), Minutes(15)>>

\* C10: of two consecutive sessions of a player, the earlier ends at or
\* before the start of the later if and only if the two joins are at least
\* 15 minutes apart.
SessionsDisjointIffGapAtLeast15 ==
    Compiled =>
        \A u \in Players :
            LET ss == SessionsOfPlayer(u) IN
            \A i \in DOMAIN ss : i < Len(ss) =>
                ( fromisoformat(ss[i].end) <= fromisoformat(ss[i + 1].start)
                  <=> fromisoformat(ss[i + 1].start) - fromisoformat(ss[i].start)
                        >= Minutes(15) )

\* a player's sessions overlap (joins 10 minutes apart, and two joins at
\* one instant), and the player's total playtime exceeds the time from the
\* first join to the end of the last session
OverlappingSessionsReached ==
    /\ pc = "done"
    /\ Starts(SessionsOfPlayer("alice")) = <<0, Minutes(10), Minutes(10)>>
    /\ LET ss == SessionsOfPlayer("alice") IN
        /\ fromisoformat(ss[1].end) > fromisoformat(ss[2].start)
        /\ fromisoformat(ss[2].end) > fromisoformat(ss[3].start)
        /\ metrics.players.at["alice"].total_playtime_hours
              > fromisoformat(ss[3].end) - fromisoformat(ss[1].start)

-----------------------------------------------------------------------------
(* Gap detection: C3, C4 *)

\* the gap between the periods at positions i and i+1 exceeds one hour
Exceeds(sp, i) == fromisoformat(sp[i + 1].start) - fromisoformat(sp[i].end) > Hours(1)

\* C3: with the FileSpans sorted ascending by start, a LoggingGap exists for
\* the adjacent pair (earlier, later) if and only if later.start minus
\* earlier.end strictly exceeds one hour, and it has start = earlier.end,
\* end = later.start and their difference as duration.
GapIffMoreThanOneHour ==
    Compiled =>
        LET sp == metrics.server_periods
            lg == metrics.logging_gaps
            pairs == 1..(Len(sp) - 1)
            GapOf(k, i) == /\ lg[k].after_file = sp[i].file
                           /\ lg[k].before_file = sp[i + 1].file
        IN /\ \A i \in pairs : ~IsoLess(sp[i + 1].start, sp[i].start)
           /\ \A i \in pairs : Exceeds(sp, i) <=> \E k \in DOMAIN lg : GapOf(k, i)
           /\ Len(lg) = Cardinality({i \in pairs : Exceeds(sp, i)})
           /\ \A k \in DOMAIN lg : \E i \in pairs :
                /\ GapOf(k, i)
                /\ lg[k].start = sp[i].end
                /\ lg[k].end = sp[i + 1].start
                /\ lg[k].duration_hours
                      = fromisoformat(sp[i + 1].start) - fromisoformat(sp[i].end)

\* the files spanning 03:00-04:00, 00:00-01:00 and the instant 01:00, scanned
\* in that order: exactly one gap, of 2 hours, from 01:00 to 03:00, and none
\* for the zero gap between the first two of the sorted spans
TwoHourGapReached ==
    /\ pc = "done"
    /\ logdir = <<Span(Hours(3), Hours(4)), Span(0, Hours(1)), Span(Hours(1), Hours(1))>>
    /\ Len(metrics.logging_gaps) = 1
    /\ metrics.logging_gaps[1].start = isoformat(Hours(1))
    /\ metrics.logging_gaps[1].end = isoformat(Hours(3))
    /\ metrics.logging_gaps[1].duration_hours = Hours(2)
    /\ metrics.server_periods[1].file = 2

Overlap(gap, span) ==
    /\ fromisoformat(gap.start) < fromisoformat(span.end)
    /\ fromisoformat(span.start) < fromisoformat(gap.end)

\* C4: the LoggingGaps are monotonic in time (each starts at or after the
\* end of the one before) and none overlaps any FileSpan of the corpus.
GapsMonotonicAndClearOfSpans ==
    Compiled =>
        LET sp == metrics.server_periods
            lg == metrics.logging_gaps
        IN /\ \A k \in DOMAIN lg : k < Len(lg) =>
                fromisoformat(lg[k].end) <= fromisoformat(lg[k + 1].start)
           /\ \A k \in DOMAIN lg : \A i \in DOMAIN sp : ~Overlap(lg[k], sp[i])

-----------------------------------------------------------------------------
(* Bounded tails: C7 *)

\* C7: errors holds at most 100 entries and recent_connections at most 50,
\* each the final entries, in order, of the corpus-wide list accumulated in
\* scan order, while total_errors and total_connections are the lengths of
\* the full lists.
TailsAreLastEntries ==
    Compiled =>
        LET e == metrics.errors
            c == metrics.recent_connections
        IN /\ Len(e) = (IF Len(all_errors) > 100 THEN 100 ELSE Len(all_errors))
           /\ Len(c) = (IF Len(all_connections) > 50 THEN 50 ELSE Len(all_connections))
           /\ \A i \in DOMAIN e : e[i] = all_errors[Len(all_errors) - Len(e) + i]
           /\ \A i \in DOMAIN c : c[i] = all_connections[Len(all_connections) - Len(c) + i]
           /\ metrics.summary.total_errors = Len(all_errors)
           /\ metrics.summary.total_connections = Len(all_connections)

\* 101 errors and 51 connections were scanned: the tails start at the second
\* entry of each list and the totals exceed the tails
TailsTruncatedReached ==
    /\ pc = "done"
    /\ metrics.summary.total_errors = 101
    /\ metrics.summary.total_connections = 51
    /\ Len(metrics.errors) = 100
    /\ Len(metrics.recent_connections) = 50
    /\ metrics.errors[1].timestamp = isoformat(Seconds(2))
    /\ metrics.errors[100].file = 2
    /\ metrics.recent_connections[1].timestamp = isoformat(Seconds(2) + 500)

-----------------------------------------------------------------------------
(* Line classification: C8, C9 *)

\* the step is an iteration of the loop over the lines, on line CurLine
LineStep == Scanning /\ lineNo' = lineNo + 1
CurLine == CurFile.lines[lineNo + 1]

\* the first bracketed token of the line is a timestamp in one of the two
\* accepted formats, and the instant it denotes
Stamped(line) == line.tok.fmt \in {"full", "short", "prefix"}
Stamp(line) == Seconds(line.tok.sec) + (IF line.tok.fmt = "full" THEN line.tok.frac ELSE 0)

\* C8: a line without bracketed token, or whose first bracketed token is no
\* timestamp in either format, produces no JoinEvent, ConnectionEvent or
\* LogRecord and leaves the file's start and end instants unchanged,
\* whatever markers it contains.
UnstampedLineIgnored ==
    [][(LineStep /\ ~Stamped(CurLine)) =>
            /\ file_metrics' = file_metrics
            /\ UNCHANGED <<all_joins, all_errors, all_connections, server_periods>>]_vars

\* a stamped line, then a line with every marker whose bracketed token is no
\* timestamp, were processed: the file has no event and the span of the
\* first line
UnstampedLineReached ==
    /\ Scanning
    /\ lineNo = 2
    /\ Stamped(CurFile.lines[1])
    /\ CurFile.lines[1].marks = {}
    /\ CurFile.lines[2] = AllMarkers
    /\ file_metrics.joins = <<>>
    /\ file_metrics.connections = <<>>
    /\ file_metrics.errors = <<>>
    /\ file_metrics.start_time = Stamp(CurFile.lines[1])
    /\ file_metrics.end_time = file_metrics.start_time

Added(after, before) == Len(after) - Len(before)
StampsRead(n) == {Stamp(CurFile.lines[i]) : i \in {k \in 1..n : Stamped(CurFile.lines[k])}}

\* C9: a line with a parseable timestamp yields at most one event, chosen by
\* the first marker it contains in the order join, connection-accept,
\* severity: none but a JoinEvent when it has the join marker, no LogRecord
\* when it has the connection-accept marker, a LogRecord of severity Error
\* when it has "Error:" and Warning otherwise; and after every line the
\* file's start and end are the least and greatest instants parsed so far.
FirstMarkerWinsAndSpanExtends ==
    [][LineStep =>
        LET line == CurLine
            j == Added(file_metrics'.joins, file_metrics.joins)
            c == Added(file_metrics'.connections, file_metrics.connections)
            e == Added(file_metrics'.errors, file_metrics.errors)
            got == StampsRead(lineNo')
        IN /\ j >= 0 /\ c >= 0 /\ e >= 0 /\ j + c + e <= 1
           /\ JOIN \in line.marks => c = 0 /\ e = 0
           /\ ACCEPT \in line.marks => e = 0
           /\ j = 1 => JOIN \in line.marks
           /\ c = 1 => ACCEPT \in line.marks
           /\ Stamped(line) /\ line.marks \cap {JOIN, ACCEPT} = {}
                 /\ line.marks # {} => e = 1
           /\ e = 1 =>
                LET r == file_metrics'.errors[Len(file_metrics'.errors)] IN
                /\ r.level = (IF ERROR \in line.marks THEN "Error" ELSE "Warning")
                /\ r.timestamp = isoformat(Stamp(line))
           /\ IF got = {}
              THEN file_metrics'.start_time = None /\ file_metrics'.end_time = None
              ELSE /\ file_metrics'.start_time = MinOf(got)
                   /\ file_metrics'.end_time = MaxOf(got)]_vars

\* a plain stamped line was processed between a later and an earlier one:
\* no event, and the span runs from the last line's instant to the first's;
\* and a line with both "Error:" and "Warning:" gave one Error record
SpanExtendedReached ==
    /\ Scanning
    /\ lineNo = 2
    /\ CurFile.lines[1].marks = {ERROR, WARNING}
    /\ CurFile.lines[2].marks = {}
    /\ Stamped(CurFile.lines[2])
    /\ Len(file_metrics.errors) = 1
    /\ file_metrics.errors[1].level = "Error"
    /\ file_metrics.start_time = Stamp(CurFile.lines[2])
    /\ file_metrics.end_time = Stamp(CurFile.lines[1])
    /\ file_metrics.start_time < file_metrics.end_time

-----------------------------------------------------------------------------
(* I/O failures: C5 *)

AcceptLinesOf(file) == {i \in DOMAIN file.lines : ACCEPT \in file.lines[i].marks}

\* C5: a file whose open or read failed was reported and skipped: it
\* contributes no JoinEvent, ConnectionEvent or LogRecord and no FileSpan,
\* wherever in the file the failure struck, and the scan moves on to the
\* next file.
FailedFileContributesNothing ==
    /\ \A f \in 1..(fileNo - 1) :
            logdir[f].fail # 0 <=> \E i \in DOMAIN reported : reported[i] = f
    /\ \A i \in DOMAIN reported :
        /\ \A k \in DOMAIN all_joins : all_joins[k].file # reported[i]
        /\ \A k \in DOMAIN all_errors : all_errors[k].file # reported[i]
        /\ \A k \in DOMAIN server_periods : server_periods[k].file # reported[i]
    /\ pc = "scan" =>
        Len(all_connections)
            <= Sum([f \in 1..(fileNo - 1) |->
                      IF logdir[f].fail = 0
                      THEN Cardinality(AcceptLinesOf(logdir[f])) ELSE 0])

-----------------------------------------------------------------------------
(* Repeated runs: C6 *)

WithoutDate(snapshot) == [snapshot EXCEPT !.summary.analysis_date = 0]

\* C6: a second run on the unchanged directory writes the same snapshot as
\* the first, entry for entry and in the same order, analysis_date apart.
RerunWritesSameSnapshot ==
    (pc = "done" /\ run > 1) => WithoutDate(output) = WithoutDate(previous)

====
